---- MODULE Spec2Model ----
(***************************************************************************)
(* A model of news_agent.py: the dedupe / tokenize / summarize / sentiment *)
(* core, the summary builder, the SQLite store and the main loop.          *)
(*                                                                         *)
(* A Python str is a sequence of one-character strings, so that            *)
(* re.split, re.findall, str.lower, str.strip, str.join and the            *)
(* ordering of str used by sorted() are computed character by character.   *)
(***************************************************************************)
EXTENDS Integers, Sequences, FiniteSets, TLC

\* Python's None: a value that equals no str (every element of a str is a
\* single character).
None == <<"None">>

\* An exception escaping a function.
TypeError == <<"TypeError">>

\* ------------------------------------------------------------------------
\* Characters

UpperCase == <<"A","B","C","D","E","F","G","H","I","J","K","L","M","N","O","P","Q","R","S","T","U","V","W","X","Y","Z">>

LowerCase == <<"a","b","c","d","e","f","g","h","i","j","k","l","m","n","o","p","q","r","s","t","u","v","w","x","y","z">>

\* The characters of the model in code-point order (the order sorted()
\* compares str by).
CharOrder == <<"\t", "\n", " ", "!", "'", ".", "?">> \o UpperCase \o LowerCase

Range(f) == { f[i] : i \in DOMAIN f }

Ord == [c \in Range(CharOrder) |-> CHOOSE i \in DOMAIN CharOrder : CharOrder[i] = c]

\* \s of the regular expressions, and the characters str.strip() removes.
Whitespace == {"\t", "\n", " "}

\* [.!?] of the sentence boundary.
Terminators == {".", "!", "?"}

\* [a-zA-Z'] of the tokenizer.
WordChars == Range(UpperCase) \cup Range(LowerCase) \cup {"'"}

LowerChar(c) ==
    IF c \in Range(UpperCase)
    THEN LowerCase[CHOOSE i \in DOMAIN UpperCase : UpperCase[i] = c]
    ELSE c

\* str.lower()
lower(s) == [i \in 1..Len(s) |-> LowerChar(s[i])]

\* str < str
RECURSIVE StrLess(_, _)
StrLess(s, t) ==
    IF t = <<>> THEN FALSE
    ELSE IF s = <<>> THEN TRUE
    ELSE IF Head(s) = Head(t) THEN StrLess(Tail(s), Tail(t))
    ELSE Ord[Head(s)] < Ord[Head(t)]

\* str.strip()
RECURSIVE lstrip(_)
lstrip(s) ==
    IF s # <<>> /\ Head(s) \in Whitespace THEN lstrip(Tail(s)) ELSE s

RECURSIVE rstrip(_)
rstrip(s) ==
    IF s # <<>> /\ s[Len(s)] \in Whitespace
    THEN rstrip(SubSeq(s, 1, Len(s) - 1))
    ELSE s

strip(s) == rstrip(lstrip(s))

\* sep.join(parts)
RECURSIVE join(_, _)
join(sep, parts) ==
    IF parts = <<>> THEN <<>>
    ELSE IF Len(parts) = 1 THEN parts[1]
    ELSE parts[1] \o sep \o join(sep, Tail(parts))

\* ------------------------------------------------------------------------
\* Word lists

STOPWORDS ==
    { <<"a">>, <<"a","n">>, <<"t","h","e">>, <<"a","n","d">>, <<"o","r">>, <<"b","u","t">>,
      <<"i","f">>, <<"w","h","i","l","e">>, <<"o","f">>, <<"t","o">>, <<"i","n">>,
      <<"o","n">>, <<"f","o","r">>, <<"w","i","t","h">>, <<"w","i","t","h","o","u","t">>,
      <<"b","y">>, <<"a","s">>, <<"i","s">>, <<"a","r","e">>, <<"w","a","s">>,
      <<"w","e","r","e">>, <<"b","e">>, <<"b","e","e","n">>, <<"t","h","i","s">>,
      <<"t","h","a","t">>, <<"t","h","e","s","e">>, <<"t","h","o","s","e">>,
      <<"f","r","o","m">>, <<"a","t">>, <<"i","t">>, <<"i","t","s">>, <<"i","n","t","o">>,
      <<"o","v","e","r">>, <<"u","n","d","e","r">>, <<"a","b","o","u","t">>,
      <<"a","f","t","e","r">>, <<"b","e","f","o","r","e">>,
      <<"b","e","t","w","e","e","n">>, <<"n","o","t">>, <<"n","o">>, <<"y","o","u">>,
      <<"y","o","u","r">>, <<"w","e">>, <<"o","u","r">>, <<"t","h","e","y">>,
      <<"t","h","e","i","r">>, <<"i">>, <<"m","e">>, <<"m","y">>, <<"u","s">>, <<"h","e">>,
      <<"s","h","e">>, <<"h","i","m">>, <<"h","e","r">>, <<"t","h","e","m">>,
      <<"h","i","s">>, <<"h","e","r","s">>, <<"o","u","r","s">>,
      <<"t","h","e","i","r","s">> }

POS_WORDS ==
    { <<"b","e","a","t">>, <<"b","e","a","t","s">>, <<"g","r","o","w","t","h">>,
      <<"s","t","r","o","n","g">>, <<"s","t","r","o","n","g","e","r">>,
      <<"s","u","r","g","e">>, <<"s","u","r","g","e","s">>, <<"r","e","c","o","r","d">>,
      <<"o","p","t","i","m","i","s","t","i","c">>, <<"u","p","g","r","a","d","e">>,
      <<"u","p","g","r","a","d","e","d">>, <<"b","u","y">>,
      <<"o","u","t","p","e","r","f","o","r","m">> }

NEG_WORDS ==
    { <<"m","i","s","s">>, <<"m","i","s","s","e","s">>, <<"d","e","c","l","i","n","e">>,
      <<"w","e","a","k">>, <<"w","e","a","k","e","r">>, <<"p","l","u","n","g","e">>,
      <<"p","l","u","n","g","e","s">>, <<"d","o","w","n","g","r","a","d","e">>,
      <<"d","o","w","n","g","r","a","d","e","d">>, <<"s","e","l","l">>,
      <<"u","n","d","e","r","p","e","r","f","o","r","m">> }

\* ------------------------------------------------------------------------
\* normalize_text

\* re.sub(r"\s+", " ", s): every maximal run of whitespace becomes one space.
RECURSIVE CollapseWhitespace(_)
CollapseWhitespace(s) ==
    IF s = <<>> THEN <<>>
    ELSE IF Head(s) \in Whitespace
    THEN <<" ">> \o CollapseWhitespace(lstrip(s))
    ELSE <<Head(s)>> \o CollapseWhitespace(Tail(s))

\* re.sub on an argument that is not a str raises TypeError.
re_sub_ws(s) == IF s = None THEN TypeError ELSE CollapseWhitespace(s)

\* Mutant of OrEmpty: the argument is used as it comes.
NoDefault(text) == text

\* text or "": None and "" are falsy.
OrEmpty(text) == IF text = None \/ text = <<>> THEN <<>> ELSE text

normalize_text(text) ==
    LET r == re_sub_ws(OrEmpty(text))
    IN  IF r = TypeError THEN TypeError ELSE strip(r)

\* ------------------------------------------------------------------------
\* tokenize

\* re.findall(r"[a-zA-Z']+", s): the maximal runs of word characters.
RECURSIVE FindAll(_, _, _, _)
FindAll(s, i, cur, acc) ==
    IF i > Len(s)
    THEN IF cur = <<>> THEN acc ELSE Append(acc, cur)
    ELSE IF s[i] \in WordChars
    THEN FindAll(s, i + 1, Append(cur, s[i]), acc)
    ELSE FindAll(s, i + 1, <<>>, IF cur = <<>> THEN acc ELSE Append(acc, cur))

KeepWord(w) == w \notin STOPWORDS /\ Len(w) > 2

tokenize(text) ==
    SelectSeq(FindAll(lower(text), 1, <<>>, <<>>), KeepWord)

\* ------------------------------------------------------------------------
\* summarize_text

\* The end of the whitespace run that starts at i.
RECURSIVE RunEnd(_, _)
RunEnd(s, i) ==
    IF i < Len(s) /\ s[i + 1] \in Whitespace THEN RunEnd(s, i + 1) ELSE i

\* re.split(r"(?<=[.!?])\s+", s): cut at every whitespace run that follows
\* a terminator; the piece after the last cut is kept even when empty.
RECURSIVE Split(_, _, _, _)
Split(s, i, cur, acc) ==
    IF i > Len(s) THEN Append(acc, cur)
    ELSE IF s[i] \in Whitespace /\ i > 1 /\ s[i - 1] \in Terminators
    THEN Split(s, RunEnd(s, i) + 1, <<>>, Append(acc, cur))
    ELSE Split(s, i + 1, Append(cur, s[i]), acc)

re_split(text) == Split(text, 1, <<>>, <<>>)

\* Counter(words): a mapping from each word to its number of occurrences.
Counter(words) ==
    [w \in Range(words) |-> Cardinality({ i \in DOMAIN words : words[i] = w })]

\* freq[w] of a Counter: 0 for a missing key.
Lookup(freq, w) == IF w \in DOMAIN freq THEN freq[w] ELSE 0

\* sum(freq[w] for w in words)
RECURSIVE SumFreq(_, _)
SumFreq(freq, words) ==
    IF words = <<>> THEN 0
    ELSE Lookup(freq, Head(words)) + SumFreq(freq, Tail(words))

\* Mutant of TupleLess: the sort looks at the score only.
TupleLessByScore(a, b) == a[1] < b[1]

\* (score, s) < (score', s') on tuples
TupleLess(a, b) == a[1] < b[1] \/ (a[1] = b[1] /\ StrLess(a[2], b[2]))

\* sorted(scored, reverse=True): descending, equal entries in input order.
RECURSIVE InsertDesc(_, _)
InsertDesc(sorted, e) ==
    IF sorted = <<>> THEN <<e>>
    ELSE IF TupleLess(Head(sorted), e) THEN <<e>> \o sorted
    ELSE <<Head(sorted)>> \o InsertDesc(Tail(sorted), e)

RECURSIVE SortedReverse(_)
SortedReverse(scored) ==
    IF scored = <<>> THEN <<>>
    ELSE InsertDesc(SortedReverse(SubSeq(scored, 1, Len(scored) - 1)),
                    scored[Len(scored)])

\* Mutant of Take: one entry too many.
TakeOneMore(seq, n) == SubSeq(seq, 1, IF n + 1 < Len(seq) THEN n + 1 ELSE Len(seq))

\* seq[:n] for n >= 0
Take(seq, n) == SubSeq(seq, 1, IF n < Len(seq) THEN n ELSE Len(seq))

NonEmpty(s) == s # <<>>

ScoreSentences(text, sentences) ==
    LET freq == Counter(tokenize(text))
    IN  [i \in 1..Len(sentences) |->
            <<SumFreq(freq, tokenize(sentences[i])), sentences[i]>>]

TopSentences(scored, max_sentences) ==
    LET best == Take(SortedReverse(scored), max_sentences)
    IN  [i \in 1..Len(best) |-> best[i][2]]

summarize_text(text, max_sentences) ==
    LET sentences == re_split(text)
    IN  IF Len(sentences) <= max_sentences
        THEN strip(text)
        ELSE LET top == TopSentences(ScoreSentences(text, sentences), max_sentences)
                 kept == SelectSeq([i \in 1..Len(top) |-> strip(top[i])], NonEmpty)
             IN  join(<<" ">>, kept)

\* ------------------------------------------------------------------------
\* dedupe

\* a or b: a when a is truthy (neither None nor ""), else b.
Or(a, b) == IF a = None \/ a = <<>> THEN b ELSE a

\* Mutant of ItemKey: the title is preferred to the link.
ItemKeyTitleFirst(it) == Or(it.title, it.link)

\* it.get("link") or it.get("title"); a field holding None stands for a
\* key that is absent or null (dict.get returns None for both).
ItemKey(it) == Or(it.link, it.title)

RECURSIVE DedupeLoop(_, _, _, _)
DedupeLoop(its, i, seen, out) ==
    IF i > Len(its) THEN out
    ELSE LET key == ItemKey(its[i])
         IN  IF key \in seen
             THEN DedupeLoop(its, i + 1, seen, out)
             ELSE DedupeLoop(its, i + 1, seen \cup {key}, Append(out, its[i]))

\* Mutant of dedupe: repeats are removed from the list while it is iterated,
\* so the item after a removed one is never examined and stays.
RECURSIVE DedupeRemoving(_, _, _, _)
DedupeRemoving(its, i, seen, out) ==
    IF i > Len(its) THEN out
    ELSE LET key == ItemKey(its[i])
         IN  IF key \in seen
             THEN IF i < Len(its)
                  THEN DedupeRemoving(its, i + 2, seen, Append(out, its[i + 1]))
                  ELSE out
             ELSE DedupeRemoving(its, i + 1, seen \cup {key}, Append(out, its[i]))

DedupeWhileIterating(its) == DedupeRemoving(its, 1, {}, <<>>)

dedupe(its) == DedupeLoop(its, 1, {}, <<>>)

\* ------------------------------------------------------------------------
\* sentiment_score

\* sum(1 for w in words if w in S)
CountIn(words, S) == Len(SelectSeq(words, LAMBDA w : w \in S))

\* Mutant of Label: the thresholds are exclusive.
LabelExclusive(score) ==
    IF score > 2 THEN "bullish"
    ELSE IF score < -2 THEN "bearish"
    ELSE "neutral"

Label(score) ==
    IF score >= 2 THEN "bullish"
    ELSE IF score <= -2 THEN "bearish"
    ELSE "neutral"

RECURSIVE ScoreLoop(_, _, _)
ScoreLoop(ts, i, score) ==
    IF i > Len(ts) THEN score
    ELSE LET words == tokenize(ts[i])
         IN  ScoreLoop(ts, i + 1,
                       score + CountIn(words, POS_WORDS) - CountIn(words, NEG_WORDS))

sentiment_score(ts) ==
    LET score == ScoreLoop(ts, 1, 0)
    IN  [score |-> score, label |-> Label(score)]

\* ------------------------------------------------------------------------
\* build_summary_sentiment

NoItemsFound ==
    <<"N","o"," ","i","t","e","m","s"," ","f","o","u","n","d",".">>

\* f"{i['title']}. {i['summary']}"
TitleDotSummary(it) == it.title \o <<".", " ">> \o it.summary

\* i["title"] + " " + i["summary"]
TitleSpaceSummary(it) == it.title \o <<" ">> \o it.summary

\* Mutant of Combined: only the summaries are joined.
CombinedSummaries(its) ==
    join(<<" ">>, [i \in 1..Len(its) |-> its[i].summary])

Combined(its) ==
    join(<<" ">>, [i \in 1..Len(its) |-> TitleDotSummary(its[i])])

build_summary_sentiment(its) ==
    LET combined == Combined(its)
    IN  [summary   |-> IF combined # <<>>
                       THEN summarize_text(combined, 3)
                       ELSE NoItemsFound,
         sentiment |-> sentiment_score(
                           [i \in 1..Len(its) |-> TitleSpaceSummary(its[i])])]

\* ------------------------------------------------------------------------
\* extract_items

\* An attribute the feed entry does not have.
Absent == <<"absent">>

\* getattr(e, name, "")
GetAttr(e, name) == IF e[name] = Absent THEN <<>> ELSE e[name]

RECURSIVE ExtractLoop(_, _, _, _)
ExtractLoop(entries, source_name, i, out) ==
    IF i > Len(entries) THEN out
    ELSE LET e == entries[i]
             title == normalize_text(GetAttr(e, "title"))
             link == GetAttr(e, "link")
             summ == normalize_text(GetAttr(e, "summary"))
             published == normalize_text(GetAttr(e, "published"))
         IN  IF title = <<>> /\ summ = <<>>
             THEN ExtractLoop(entries, source_name, i + 1, out)
             ELSE ExtractLoop(entries, source_name, i + 1,
                      Append(out, [source |-> source_name, title |-> title,
                                   link |-> link, summary |-> summ,
                                   published |-> published]))

extract_items(feed, source_name) == ExtractLoop(feed, source_name, 1, <<>>)

\* ------------------------------------------------------------------------
\* init_db / store_items

\* link TEXT UNIQUE: a row conflicts with a stored row that has the same
\* link, unless the link is NULL (SQLite never finds two NULLs equal).
Conflicts(rows, link) ==
    link # None /\ \E r \in 1..Len(rows) : rows[r].link = link

\* INSERT OR IGNORE of one row (the columns but id, which no code reads).
InsertOrIgnore(rows, it, fetched_at) ==
    IF Conflicts(rows, it.link) THEN rows
    ELSE Append(rows, [source |-> it.source,
                       title |-> it.title, link |-> it.link,
                       summary |-> it.summary, published |-> it.published,
                       fetched_at |-> fetched_at])

RECURSIVE ExecuteMany(_, _, _, _)
ExecuteMany(rows, its, i, fetched_at) ==
    IF i > Len(its) THEN rows
    ELSE ExecuteMany(InsertOrIgnore(rows, its[i], fetched_at), its, i + 1,
                     fetched_at)

store_items(rows, its, fetched_at) ==
    IF its = <<>> THEN rows ELSE ExecuteMany(rows, its, 1, fetched_at)

\* ------------------------------------------------------------------------
\* render_report: the report as the parts it prints, in order.

render_report(its, summ, sentiment_, errs) ==
    [summary  |-> summ,
     count    |-> Len(its),
     label    |-> sentiment_.label,
     score    |-> sentiment_.score,
     errors   |-> errs,
     articles |-> its]

\* ------------------------------------------------------------------------
\* State

VARIABLES
    pc,             \* where the run is
    text,           \* the text argument of normalize_text / tokenize / summarize_text
    max_sentences,  \* the max_sentences argument of summarize_text
    returned,       \* what normalize_text or tokenize returned
    summary,        \* what summarize_text returned
    texts,          \* the argument of sentiment_score
    sentiment,      \* what sentiment_score returned
    nsources,       \* main: the number of configured sources
    idx,            \* main: the source the loop is at
    responses,      \* main: what each source processed so far answered
    all_items,      \* main: all_items; the argument of dedupe
    errors,         \* main: errors
    items,          \* main: items = dedupe(all_items); the argument of build_summary_sentiment
    again,          \* dedupe applied to its own result
    table,          \* the rows of news_items
    meta,           \* what build_summary_sentiment returned
    report,         \* the report written to out_path
    ret             \* the return value of main

vars == <<pc, text, max_sentences, returned, summary, texts, sentiment,
          nsources, idx, responses, all_items, errors, items, again, table,
          meta, report, ret>>

\* A variable the run has not assigned.
Unset == <<"unset">>

\* ------------------------------------------------------------------------
\* Inputs

\* Texts are made of at most MaxFrags pieces of Frags.
MaxFrags == 5

\* max_sentences ranges over 0..MaxSentences.
MaxSentences == 2

\* Raw feed strings are made of at most MaxRaw pieces.
MaxRaw == 3

\* sentiment_score takes at most MaxTexts texts.
MaxTexts == 3

\* dedupe takes at most MaxItems items.
MaxItems == 3

\* build_summary_sentiment takes at most MaxBuildItems items.
MaxBuildItems == 3

\* main reads at most MaxSources sources.
MaxSources == 3

RECURSIVE StringsUpTo(_, _)
StringsUpTo(pieces, n) ==
    IF n = 0 THEN { <<>> }
    ELSE LET shorter == StringsUpTo(pieces, n - 1)
         IN  shorter \cup { t \o f : t \in shorter, f \in pieces }

RECURSIVE SeqsUpTo(_, _)
SeqsUpTo(S, n) ==
    IF n = 0 THEN { <<>> }
    ELSE LET shorter == SeqsUpTo(S, n - 1)
         IN  shorter \cup { Append(q, x) : q \in shorter, x \in S }

\* The pieces the input texts are made of: words (a positive one with a
\* capital, a negative one, a stopword), a sentence boundary, whitespace
\* and a terminator that no whitespace follows.
Frags ==
    { <<"B","u","y">>, <<"s","e","l","l">>, <<"t","h","e">>,
      <<".", " ">>, <<" ">>, <<"?">> }

TextsUpTo(n) == StringsUpTo(Frags, n)

\* The pieces of raw feed strings.
RawPieces == { <<" ">>, <<"\n">>, <<"\t">>, <<"B","u","y">>, <<".">> }

SentimentPool ==
    { <<>>,
      <<"B","u","y">>,
      <<"s","e","l","l","?"," ","w","e","a","k">>,
      <<"t","h","e"," ","b","e","a","t","s"," ","B","u","y">>,
      <<"d","o","n","'","t"," ","S","E","L","L","!">>,
      <<"b","u","y","e","r">> }

Item(title, link, summ) ==
    [source |-> <<"s">>, title |-> title, link |-> link, summary |-> summ,
     published |-> <<>>]

\* Items for dedupe: the link is absent/null, empty or one of two URLs, and
\* a title may equal a URL.
DedupePool ==
    { Item(t, l, <<>>) : t \in { <<>>, <<"u">>, <<"t">> },
                         l \in { None, <<>>, <<"u">>, <<"v">> } }

\* Items for build_summary_sentiment.
BuildPool ==
    { Item(t, None, s) :
        t \in { <<>>, <<"B","u","y">>, <<"s","e","l","l">> },
        s \in { <<>>, <<"B","u","y"," ","t","h","e",".">>,
                <<"w","e","a","k","?"," ","t","h","e">> } }

Entry(title, link, summ) ==
    [title |-> title, link |-> link, summary |-> summ, published |-> Absent]

EntryA == Entry(<<"B","u","y">>, <<"u">>, Absent)
EntryB == Entry(<<"s","e","l","l","\n"," ","s","e","l","l">>, Absent,
                <<"t","h","e"," ","w","e","a","k",".">>)
EntryC == Entry(<<"w","e","a","k">>, Absent, <<" ">>)
EntryD == Entry(Absent, <<"v">>, Absent)

\* What a source may answer: no entry, one entry, an entry without a link
\* followed by a repeat of a linked one, an entry without a link followed
\* by one without title and summary.
FeedPool ==
    { <<>>, <<EntryA>>, <<EntryB, EntryA>>, <<EntryC, EntryD>> }

\* str(e) of the exceptions a fetch raises.
ErrorPool == { <<"t","i","m","e","o","u","t">>, <<"4","0","4">> }

Digits == <<"1","2","3","4","5","6","7","8","9">>

\* s["name"] of the i-th configured source.
SourceName(i) == <<"s","r","c", Digits[i]>>

\* fetched_at of the run.
FetchedAt == <<"n","o","w">>

\* ------------------------------------------------------------------------
\* main

IdleUnit ==
    /\ text = Unset /\ max_sentences = Unset /\ returned = Unset
    /\ summary = Unset /\ texts = Unset /\ sentiment = Unset

IdleMain ==
    /\ nsources = Unset /\ idx = Unset /\ responses = Unset /\ errors = Unset
    /\ table = Unset /\ report = Unset /\ ret = Unset

\* main up to the loop: the sources are loaded, all_items and errors are
\* empty; the database is new.
Init ==
    /\ pc = "fetch"
    /\ nsources \in 0..MaxSources
    /\ idx = 1
    /\ responses = <<>>
    /\ all_items = <<>>
    /\ errors = <<>>
    /\ items = Unset /\ again = Unset /\ meta = Unset
    /\ table = <<>>
    /\ report = Unset /\ ret = Unset
    /\ IdleUnit

\* f"{s['name']}: {e}"
ErrorMessage(name, e) == name \o <<":", " ">> \o e

\* Mutant of OnException: the exception is not caught and ends main.
Uncaught(e) ==
    /\ pc' = "raised"
    /\ ret' = 1
    /\ responses' = Append(responses, [ok |-> FALSE, error |-> e])
    /\ UNCHANGED <<idx, errors, all_items>>

\* The except branch of the loop body.
OnException(e) ==
    /\ errors' = Append(errors, ErrorMessage(SourceName(idx), e))
    /\ responses' = Append(responses, [ok |-> FALSE, error |-> e])
    /\ idx' = idx + 1
    /\ UNCHANGED <<pc, all_items, ret>>

\* One pass of the loop body: fetch_feed and extract_items succeed.
FetchOk ==
    /\ pc = "fetch" /\ idx <= nsources
    /\ \E feed \in FeedPool :
        /\ all_items' = all_items \o extract_items(feed, SourceName(idx))
        /\ responses' = Append(responses, [ok |-> TRUE, feed |-> feed])
    /\ idx' = idx + 1
    /\ UNCHANGED <<pc, text, max_sentences, returned, summary, texts,
                   sentiment, nsources, errors, items, again, table, meta,
                   report, ret>>

\* One pass of the loop body: fetch_feed or extract_items raises.
FetchRaises ==
    /\ pc = "fetch" /\ idx <= nsources
    /\ \E e \in ErrorPool : OnException(e)
    /\ UNCHANGED <<text, max_sentences, returned, summary, texts, sentiment,
                   nsources, items, again, table, meta, report>>

\* items = dedupe(all_items)
Dedupe ==
    /\ pc = "fetch" /\ idx > nsources
    /\ items' = dedupe(all_items)
    /\ pc' = "store"
    /\ UNCHANGED <<text, max_sentences, returned, summary, texts, sentiment,
                   nsources, idx, responses, all_items, errors, again, table,
                   meta, report, ret>>

\* init_db, store_items, conn.close()
Store ==
    /\ pc = "store"
    /\ table' = store_items(table, items, FetchedAt)
    /\ pc' = "build"
    /\ UNCHANGED <<text, max_sentences, returned, summary, texts, sentiment,
                   nsources, idx, responses, all_items, errors, items, again,
                   meta, report, ret>>

\* meta = build_summary_sentiment(items)
Build ==
    /\ pc = "build"
    /\ meta' = build_summary_sentiment(items)
    /\ pc' = "report"
    /\ UNCHANGED <<text, max_sentences, returned, summary, texts, sentiment,
                   nsources, idx, responses, all_items, errors, items, again,
                   table, report, ret>>

\* render_report, write the report (and the site), return 0
WriteReport ==
    /\ pc = "report"
    /\ report' = render_report(items, meta.summary, meta.sentiment, errors)
    /\ ret' = 0
    /\ pc' = "done"
    /\ UNCHANGED <<text, max_sentences, returned, summary, texts, sentiment,
                   nsources, idx, responses, all_items, errors, items, again,
                   table, meta>>

Next == FetchOk \/ FetchRaises \/ Dedupe \/ Store \/ Build \/ WriteReport

Spec == Init /\ [][Next]_vars

\* ------------------------------------------------------------------------
\* dedupe on its own

InitDedupe ==
    /\ pc = "items"
    /\ all_items \in SeqsUpTo(DedupePool, MaxItems)
    /\ items = Unset /\ again = Unset /\ meta = Unset
    /\ IdleUnit /\ IdleMain

CallDedupe ==
    /\ pc = "items"
    /\ items' = dedupe(all_items)
    /\ pc' = "deduped"
    /\ UNCHANGED <<text, max_sentences, returned, summary, texts, sentiment,
                   nsources, idx, responses, all_items, errors, again, table,
                   meta, report, ret>>

CallDedupeAgain ==
    /\ pc = "deduped"
    /\ again' = dedupe(items)
    /\ pc' = "again"
    /\ UNCHANGED <<text, max_sentences, returned, summary, texts, sentiment,
                   nsources, idx, responses, all_items, errors, items, table,
                   meta, report, ret>>

NextDedupe == CallDedupe \/ CallDedupeAgain

SpecDedupe == InitDedupe /\ [][NextDedupe]_vars

\* ------------------------------------------------------------------------
\* summarize_text on its own

InitSummarize ==
    /\ pc = "text"
    /\ text \in TextsUpTo(MaxFrags)
    /\ max_sentences = Unset /\ returned = Unset /\ summary = Unset
    /\ texts = Unset /\ sentiment = Unset
    /\ all_items = Unset /\ items = Unset /\ again = Unset /\ meta = Unset
    /\ IdleMain

CallSummarize ==
    /\ pc = "text"
    /\ \E m \in 0..MaxSentences :
        /\ max_sentences' = m
        /\ summary' = summarize_text(text, m)
    /\ pc' = "summarized"
    /\ UNCHANGED <<text, returned, texts, sentiment, nsources, idx, responses,
                   all_items, errors, items, again, table, meta, report, ret>>

NextSummarize == CallSummarize

SpecSummarize == InitSummarize /\ [][NextSummarize]_vars

\* ------------------------------------------------------------------------
\* sentiment_score on its own

InitSentiment ==
    /\ pc = "texts"
    /\ texts \in SeqsUpTo(SentimentPool, MaxTexts)
    /\ text = Unset /\ max_sentences = Unset /\ returned = Unset
    /\ summary = Unset /\ sentiment = Unset
    /\ all_items = Unset /\ items = Unset /\ again = Unset /\ meta = Unset
    /\ IdleMain

CallSentiment ==
    /\ pc = "texts"
    /\ sentiment' = sentiment_score(texts)
    /\ pc' = "scored"
    /\ UNCHANGED <<text, max_sentences, returned, summary, texts, nsources,
                   idx, responses, all_items, errors, items, again, table,
                   meta, report, ret>>

NextSentiment == CallSentiment

SpecSentiment == InitSentiment /\ [][NextSentiment]_vars

\* ------------------------------------------------------------------------
\* build_summary_sentiment on its own

InitBuild ==
    /\ pc = "deduped"
    /\ items \in SeqsUpTo(BuildPool, MaxBuildItems)
    /\ all_items = Unset /\ again = Unset /\ meta = Unset
    /\ IdleUnit /\ IdleMain

CallBuild ==
    /\ pc = "deduped"
    /\ meta' = build_summary_sentiment(items)
    /\ pc' = "built"
    /\ UNCHANGED <<text, max_sentences, returned, summary, texts, sentiment,
                   nsources, idx, responses, all_items, errors, items, again,
                   table, report, ret>>

NextBuild == CallBuild

SpecBuild == InitBuild /\ [][NextBuild]_vars

\* ------------------------------------------------------------------------
\* normalize_text, dedupe, tokenize, summarize_text, sentiment_score and
\* build_summary_sentiment called on every kind of input they accept

InitTotal ==
    /\ \/ /\ pc = "text"
          /\ text \in StringsUpTo(RawPieces, MaxRaw) \cup TextsUpTo(MaxRaw)
                      \cup {None}
          /\ texts = Unset /\ all_items = Unset /\ items = Unset
       \/ /\ pc = "texts"
          /\ texts \in SeqsUpTo(SentimentPool, MaxTexts)
          /\ text = Unset /\ all_items = Unset /\ items = Unset
       \/ /\ pc = "all_items"
          /\ all_items \in SeqsUpTo(DedupePool, MaxItems)
          /\ text = Unset /\ texts = Unset /\ items = Unset
       \/ /\ pc = "items"
          /\ items \in SeqsUpTo(BuildPool, MaxBuildItems)
          /\ text = Unset /\ texts = Unset /\ all_items = Unset
    /\ max_sentences = Unset /\ returned = Unset /\ summary = Unset
    /\ sentiment = Unset /\ again = Unset /\ meta = Unset
    /\ IdleMain

TotalNormalize ==
    /\ pc = "text"
    /\ returned' = normalize_text(text)
    /\ pc' = "normalize_text"
    /\ UNCHANGED <<text, max_sentences, summary, texts, sentiment, nsources,
                   idx, responses, all_items, errors, items, again, table,
                   meta, report, ret>>

TotalTokenize ==
    /\ pc = "text" /\ text # None
    /\ returned' = tokenize(text)
    /\ pc' = "tokenize"
    /\ UNCHANGED <<text, max_sentences, summary, texts, sentiment, nsources,
                   idx, responses, all_items, errors, items, again, table,
                   meta, report, ret>>

TotalSummarize ==
    /\ pc = "text" /\ text # None
    /\ \E m \in 0..MaxSentences :
        /\ max_sentences' = m
        /\ summary' = summarize_text(text, m)
    /\ pc' = "summarize_text"
    /\ UNCHANGED <<text, returned, texts, sentiment, nsources, idx, responses,
                   all_items, errors, items, again, table, meta, report, ret>>

TotalSentiment ==
    /\ pc = "texts"
    /\ sentiment' = sentiment_score(texts)
    /\ pc' = "sentiment_score"
    /\ UNCHANGED <<text, max_sentences, returned, summary, texts, nsources,
                   idx, responses, all_items, errors, items, again, table,
                   meta, report, ret>>

TotalDedupe ==
    /\ pc = "all_items"
    /\ items' = dedupe(all_items)
    /\ pc' = "dedupe"
    /\ UNCHANGED <<text, max_sentences, returned, summary, texts, sentiment,
                   nsources, idx, responses, all_items, errors, again, table,
                   meta, report, ret>>

TotalBuild ==
    /\ pc = "items"
    /\ meta' = build_summary_sentiment(items)
    /\ pc' = "build_summary_sentiment"
    /\ UNCHANGED <<text, max_sentences, returned, summary, texts, sentiment,
                   nsources, idx, responses, all_items, errors, items, again,
                   table, report, ret>>

NextTotal ==
    \/ TotalNormalize \/ TotalTokenize \/ TotalSummarize
    \/ TotalSentiment \/ TotalDedupe \/ TotalBuild

SpecTotal == InitTotal /\ [][NextTotal]_vars

\* ========================================================================
\* Claims about dedupe (SpecDedupe)

\* The identity key as the specification words it: the link if there is a
\* non-empty one, else the title.
IdentityKey(it) ==
    IF it.link # None /\ it.link # <<>> THEN it.link ELSE it.title

\* The positions of seq that hold the first occurrence of their key.
FirstOccurrences(seq) ==
    { i \in DOMAIN seq :
        \A j \in DOMAIN seq : j < i => IdentityKey(seq[j]) # IdentityKey(seq[i]) }

\* The subsequence of seq at the positions in P, in the order of seq.
RECURSIVE SubsequenceAt(_, _, _)
SubsequenceAt(seq, P, i) ==
    IF i > Len(seq) THEN <<>>
    ELSE (IF i \in P THEN <<seq[i]>> ELSE <<>>) \o SubsequenceAt(seq, P, i + 1)

KeysOf(seq) == { IdentityKey(seq[i]) : i \in DOMAIN seq }

\* C1: dedupe(items) is the subsequence of first occurrences of each
\* identity key, in input order: no two output items share a key, every
\* input key is in the output, and items with neither link nor title
\* collapse to at most one.
C1_FirstOccurrences ==
    pc \in {"deduped", "again"} =>
        /\ items = SubsequenceAt(all_items, FirstOccurrences(all_items), 1)
        /\ \A i, j \in DOMAIN items :
              i # j => IdentityKey(items[i]) # IdentityKey(items[j])
        /\ KeysOf(items) = KeysOf(all_items)
        /\ Cardinality({ i \in DOMAIN items :
                            IdentityKey(items[i]) = <<>> }) <= 1

\* C1 witness: a run where dedupe dropped a repeat that lies between two
\* kept items, one of them without link and title.
C1_Witness ==
    /\ pc = "deduped"
    /\ Len(all_items) = 3 /\ Len(items) = 2
    /\ IdentityKey(all_items[1]) = IdentityKey(all_items[2])
    /\ IdentityKey(items[2]) = <<>>

\* C2: dedupe(dedupe(x)) = dedupe(x).
C2_Idempotent ==
    pc = "again" => again = items

\* C2 witness: the second application ran on a result from which the first
\* had removed something.
C2_Witness ==
    /\ pc = "again"
    /\ Len(items) < Len(all_items)
    /\ Len(items) >= 2

\* ========================================================================
\* Claims about summarize_text (SpecSummarize)

\* The sentences of a text: what lies between the sentence boundaries
\* (a terminator followed by whitespace); nothing follows the last boundary
\* of a text that ends in one.
SentencesOf(s) == SelectSeq(re_split(s), NonEmpty)

\* C3: a text of at most max_sentences sentences is returned trimmed and
\* otherwise unchanged, also when whitespace follows its last terminator.
C3_ShortCircuit ==
    (pc = "summarized" /\ Len(SentencesOf(text)) <= max_sentences)
        => summary = strip(text)

\* The input sentences, trimmed.
TrimmedSentences(s) == { strip(p) : p \in Range(SentencesOf(s)) }

\* C4 as claimed: with more than max_sentences sentences in the text, the
\* output splits into at most max_sentences sentences and each of them is
\* a sentence of the input.
C4_OutputSentencesAreInputSentences ==
    (pc = "summarized" /\ Len(SentencesOf(text)) > max_sentences)
        => /\ Len(SentencesOf(summary)) <= max_sentences
           /\ Range(SentencesOf(summary)) \subseteq TrimmedSentences(text)

Injective(f) == \A a, b \in DOMAIN f : a # b => f[a] # f[b]

EndsInTerminator(s) == s # <<>> /\ s[Len(s)] \in Terminators

\* C4 amended: with more than max_sentences sentences in the text, the
\* output is at most max_sentences whole sentences of the input, each
\* trimmed and otherwise verbatim, joined by single spaces; split again at
\* the sentence boundaries it yields only input sentences, unless one of
\* the joined sentences has no terminator at its end.
C4_JoinOfInputSentences ==
    (pc = "summarized" /\ Len(SentencesOf(text)) > max_sentences)
        => LET sents == SentencesOf(text)
           IN  \E k \in 0..max_sentences :
               \E p \in [1..k -> DOMAIN sents] :
                  /\ Injective(p)
                  /\ summary = join(<<" ">>, [a \in 1..k |-> strip(sents[p[a]])])
                  /\ (\A a \in 1..k : EndsInTerminator(sents[p[a]]))
                        => SentencesOf(summary) = [a \in 1..k |-> strip(sents[p[a]])]

\* C4 witness: two sentences were chosen among three or more.
C4_Witness ==
    /\ pc = "summarized"
    /\ max_sentences = 2
    /\ Len(SentencesOf(text)) > 2
    /\ Len(SentencesOf(summary)) = 2
    /\ SentencesOf(summary)[1] # SentencesOf(summary)[2]

\* The score of a sentence with tokens own in a text with tokens all: one
\* for every pair of a token of the sentence and an equal token of the text.
SentenceScore(own, all) ==
    Cardinality({ q \in (DOMAIN own) \X (DOMAIN all) : own[q[1]] = all[q[2]] })

\* The scores of the sentences sents from the i-th on.
RECURSIVE ScoresFrom(_, _, _)
ScoresFrom(sents, all, i) ==
    IF i > Len(sents) THEN <<>>
    ELSE <<SentenceScore(tokenize(sents[i]), all)>> \o ScoresFrom(sents, all, i + 1)

\* With the scores sc of the sentences sents, the place of sentence i in
\* the descending order of (score, text): one more than the number of
\* sentences with a higher score, or the same score and a later text, or
\* the same score and text and an earlier position.
Place(sents, sc, i) ==
    1 + Cardinality({ j \in DOMAIN sents :
            \/ sc[j] > sc[i]
            \/ sc[j] = sc[i] /\ StrLess(sents[i], sents[j])
            \/ sc[j] = sc[i] /\ sents[j] = sents[i] /\ j < i })

Min(a, b) == IF a < b THEN a ELSE b

\* C8: with more than max_sentences sentences, the output joins by single
\* spaces the non-empty trimmed ones of the first max_sentences sentences
\* in descending order of (score, sentence text), in that order.
C8_TopByScoreThenText ==
    (pc = "summarized" /\ Len(re_split(text)) > max_sentences)
        => LET sents == re_split(text)
               sc == ScoresFrom(sents, tokenize(text), 1)
               k == Min(max_sentences, Len(sents))
               chosen == [a \in 1..k |->
                            sents[CHOOSE i \in DOMAIN sents : Place(sents, sc, i) = a]]
           IN  summary = join(<<" ">>,
                   SelectSeq([a \in 1..k |-> strip(chosen[a])], NonEmpty))

\* C8 witness: two sentences of equal score were chosen, and the one that
\* is later in the text and later in the alphabet comes first.
C8_Witness ==
    /\ pc = "summarized"
    /\ max_sentences = 2
    /\ LET sents == re_split(text)
           sc == ScoresFrom(sents, tokenize(text), 1)
       IN  \E i, j \in DOMAIN sents :
              /\ i < j
              /\ sc[i] = sc[j] /\ sc[i] > 0
              /\ StrLess(sents[i], sents[j])
              /\ summary = sents[j] \o <<" ">> \o sents[i]

\* ========================================================================
\* Claim about sentiment_score (SpecSentiment)

\* The occurrences, over all texts, of tokens that are in S.
Occurrences(ts, S) ==
    UNION { { <<i, j>> : j \in { n \in DOMAIN tokenize(ts[i]) :
                                    tokenize(ts[i])[n] \in S } } :
            i \in DOMAIN ts }

\* C5: the score is the number of positive token occurrences minus the
\* number of negative ones over all texts, not normalized, and the label
\* is bullish iff score >= 2, bearish iff score <= -2, neutral iff the
\* score is -1, 0 or 1.
C5_ScoreAndLabel ==
    pc = "scored" =>
        /\ sentiment.score = Cardinality(Occurrences(texts, POS_WORDS))
                             - Cardinality(Occurrences(texts, NEG_WORDS))
        /\ sentiment.label \in {"bullish", "bearish", "neutral"}
        /\ sentiment.label = "bullish" <=> sentiment.score >= 2
        /\ sentiment.label = "bearish" <=> sentiment.score <= -2
        /\ sentiment.label = "neutral" <=> sentiment.score \in {-1, 0, 1}

\* C5 witness: positive and negative words over several texts add up to
\* exactly 2.
C5_Witness ==
    /\ pc = "scored"
    /\ Len(texts) = 3
    /\ Occurrences(texts, NEG_WORDS) # {}
    /\ sentiment.score = 2
    /\ sentiment.label = "bullish"

\* ========================================================================
\* Claim about build_summary_sentiment (SpecBuild)

\* C6: no item gives 'No items found.' and score 0, neutral; one item or
\* more gives a non-empty combined text, never the fallback, and the
\* summary is summarize_text of the '<title>. <summary>' strings joined by
\* spaces, with max_sentences = 3.
C6_FallbackOnlyWhenEmpty ==
    pc = "built" =>
        LET parts == [i \in 1..Len(items) |->
                         items[i].title \o <<".", " ">> \o items[i].summary]
        IN  /\ items = <<>> =>
                 /\ meta.summary = NoItemsFound
                 /\ meta.sentiment = [score |-> 0, label |-> "neutral"]
            /\ items # <<>> =>
                 /\ join(<<" ">>, parts) # <<>>
                 /\ meta.summary = summarize_text(join(<<" ">>, parts), 3)

\* C6 witness: items whose titles and summaries are all empty still make a
\* combined text, and the fallback is not used.
C6_Witness ==
    /\ pc = "built"
    /\ Len(items) = 2
    /\ \A i \in DOMAIN items : items[i].title = <<>> /\ items[i].summary = <<>>
    /\ meta.summary # NoItemsFound

\* ========================================================================
\* Claim about the six functions together (SpecTotal)

IsStr(x) == \A i \in DOMAIN x : x[i] \in Range(CharOrder)

IsSentiment(x) ==
    /\ x.score \in Int
    /\ x.label \in {"bullish", "bearish", "neutral"}

\* C7: on strings (and None for normalize_text, treated as ""), lists of
\* strings and items whose link may be absent, every function returns a
\* value of its type and raises nothing.
C7_Total ==
    /\ pc = "normalize_text" =>
          /\ returned # TypeError
          /\ IsStr(returned)
          /\ text = None => returned = <<>>
    /\ pc = "tokenize" => \A i \in DOMAIN returned : IsStr(returned[i])
    /\ pc = "summarize_text" => IsStr(summary)
    /\ pc = "sentiment_score" => IsSentiment(sentiment)
    /\ pc = "dedupe" => \A i \in DOMAIN items : items[i] \in Range(all_items)
    /\ pc = "build_summary_sentiment" =>
          /\ IsStr(meta.summary)
          /\ IsSentiment(meta.sentiment)

\* C7 witness: normalize_text was given None.
C7_Witness ==
    /\ pc = "normalize_text"
    /\ text = None
    /\ returned = <<>>

\* ========================================================================
\* Claims about main (Spec)

\* The items of the sources that answered, in the order of the sources.
RECURSIVE Collected(_, _)
Collected(resp, i) ==
    IF i > Len(resp) THEN <<>>
    ELSE (IF resp[i].ok THEN extract_items(resp[i].feed, SourceName(i))
          ELSE <<>>) \o Collected(resp, i + 1)

\* One message per source that failed, in the order of the sources.
RECURSIVE Messages(_, _)
Messages(resp, i) ==
    IF i > Len(resp) THEN <<>>
    ELSE (IF resp[i].ok THEN <<>>
          ELSE <<SourceName(i) \o <<":", " ">> \o resp[i].error>>)
         \o Messages(resp, i + 1)

\* C9: the sources are processed in order; a source that fails adds no
\* item and exactly one message '<name>: <error>', the items of the others
\* are all collected, and whatever fails the run goes on to dedupe, store,
\* build and write the report, and returns 0: the run is never anywhere
\* but in the loop or in one of these steps, each of which always runs.
C9_FailuresIsolated ==
    /\ pc = "fetch" => Len(responses) = idx - 1
    /\ pc # "fetch" => Len(responses) = nsources
    /\ all_items = Collected(responses, 1)
    /\ errors = Messages(responses, 1)
    /\ pc \in {"fetch", "store", "build", "report", "done"}
    /\ pc \in {"build", "report", "done"} => table = store_items(<<>>, items, FetchedAt)
    /\ pc \in {"report", "done"} => meta = build_summary_sentiment(items)
    /\ pc = "done" =>
          /\ ret = 0
          /\ items = dedupe(all_items)
          /\ report.errors = errors
          /\ report.articles = items
          /\ report.summary = meta.summary

\* C9 witness: the second of three sources failed, the first and third
\* gave items, and the report is written.
C9_Witness ==
    /\ pc = "done"
    /\ nsources = 3
    /\ responses[1].ok /\ ~responses[2].ok /\ responses[3].ok
    /\ Len(errors) = 1
    /\ \E i, j \in DOMAIN all_items :
          all_items[i].source = SourceName(1) /\ all_items[j].source = SourceName(3)

\* A row holds an item.
RowOf(row, it) ==
    /\ row.source = it.source /\ row.title = it.title /\ row.link = it.link
    /\ row.summary = it.summary /\ row.published = it.published

\* C10: from an empty table, after store_items the table holds exactly one
\* row for each item dedupe retained, also for the items without a link.
C10_EveryItemStored ==
    pc \in {"build", "report", "done"} =>
        /\ Len(table) = Len(items)
        /\ \A i \in DOMAIN items :
              Cardinality({ r \in DOMAIN table : RowOf(table[r], items[i]) }) = 1

====
